---- MODULE Spec2Model ----
(***************************************************************************)
(* A model of the prompts package: the Template entity with its per-model  *)
(* registry (templates.py), the render function with its lru_cache and its *)
(* unknown-model warning, the special-token table (tokens.py) and the Chat *)
(* container (chat.py).                                                    *)
(*                                                                         *)
(* A text is a sequence of symbols.  A symbol is a space, a line break, a  *)
(* word (letters/digits), a punctuation mark or a Jinja2 expression        *)
(* "{{name}}".  A rendered string is a sequence of such symbols too, where *)
(* a substituted value or special token is one symbol.                     *)
(***************************************************************************)
EXTENDS Integers, Sequences, FiniteSets, TLC

\* ------------------------------------------------------------------ bounds
MaxTemplates == 3      \* Template objects of the dispatch machine
MaxCached == 1         \* cache entries of the dispatch and binding machines
MaxBound == 2          \* Template objects of the binding machine
MaxArgs == 2           \* positional arguments of one Call
MaxMemo == 1           \* cache entries of the render machine

\* lru_cache's default maxsize (render is decorated with a bare @lru_cache)
maxsize == 128

\* -------------------------------------------------------------- tokens.py
None == "<None>"       \* Python's None, as a model name and as a docstring

Limits(begin, end) == [begin |-> begin, end |-> end]

Special(sequence, user, assistant, system) ==
    [sequence |-> sequence, user |-> user, assistant |-> assistant, system |-> system]

DefaultSpecial == Special(Limits("", ""), Limits("", ""), Limits("", ""), Limits("", ""))

SPECIAL_TOKENS ==
    [k \in {None, "google/gemma-2-9b", "openai-community/gpt2",
            "mistralai/Mistral-7B-v0.1", "mistralai/Mistral-7B-Instruct-v0.1"} |->
        CASE k = None -> DefaultSpecial
          [] k = "google/gemma-2-9b" ->
                Special(Limits("<bos>", "<eos>"), Limits("", ""), Limits("", ""), Limits("", ""))
          [] k = "openai-community/gpt2" ->
                Special(Limits("", "<|endoftext|>"), Limits("", ""), Limits("", ""), Limits("", ""))
          [] k = "mistralai/Mistral-7B-v0.1" ->
                Special(Limits("<s>", "</s>"), Limits("", ""), Limits("", ""), Limits("", ""))
          [] k = "mistralai/Mistral-7B-Instruct-v0.1" ->
                Special(Limits("<s>", "</s>"), Limits("[INST]", "[/INST]"),
                        Limits("", "</s>"), Limits("", ""))]

\* SPECIAL_TOKENS.get(model_name, Special())
TokensOf(model_name) ==
    IF model_name \in DOMAIN SPECIAL_TOKENS THEN SPECIAL_TOKENS[model_name] ELSE DefaultSpecial

\* ------------------------------------------------------------ text symbols
SP == " "
NL == "\n"

\* Jinja2 expressions the modelled templates use
VarExprs == {"{{query}}", "{{var}}", "{{other_var}}", "{{third}}"}
GlobalExprs == {"{{bos}}", "{{eos}}", "{{user.begin}}", "{{user.end}}",
                "{{assistant.begin}}", "{{assistant.end}}",
                "{{system.begin}}", "{{system.end}}"}

\* symbols matched by the regex class \w
WordSyms == {"name", "and", "A", "B"}

IsSpace(c) == c = SP \/ c = NL          \* the regex class \s
IsWord(c) == c \in WordSyms

\* a Python str as a text: the empty str is the empty text
Str(s) == IF s = "" THEN <<>> ELSE <<s>>

\* ------------------------------------------- render: text normalization
Min(a, b) == IF a < b THEN a ELSE b

\* str.split("\n")
RECURSIVE SplitLines(_)
SplitLines(s) ==
    IF \A i \in 1..Len(s) : s[i] # NL THEN <<s>>
    ELSE LET i == CHOOSE k \in 1..Len(s) : s[k] = NL /\ \A j \in 1..(k - 1) : s[j] # NL
         IN  <<SubSeq(s, 1, i - 1)>> \o SplitLines(SubSeq(s, i + 1, Len(s)))

\* "\n".join(lines)
RECURSIVE JoinLines(_)
JoinLines(lines) ==
    IF lines = <<>> THEN <<>>
    ELSE IF Len(lines) = 1 THEN lines[1]
    ELSE lines[1] \o <<NL>> \o JoinLines(Tail(lines))

\* len(line) - len(line.lstrip()) for a line (it holds no line break)
RECURSIVE Indent(_)
Indent(line) ==
    IF line # <<>> /\ IsSpace(Head(line)) THEN 1 + Indent(Tail(line)) ELSE 0

LStrip(line) == SubSeq(line, Indent(line) + 1, Len(line))

\* cleandoc's margin: the least indentation of the non-blank lines after the
\* first; NoMargin stands for sys.maxsize (no such line)
NoMargin == -1

RECURSIVE MarginFrom(_, _)
MarginFrom(lines, i) ==
    IF i > Len(lines) THEN NoMargin
    ELSE LET rest == MarginFrom(lines, i + 1)
             ind == Indent(lines[i])
         IN  IF ind = Len(lines[i]) THEN rest           \* blank line: no content
             ELSE IF rest = NoMargin THEN ind ELSE Min(ind, rest)

\* while lines and not lines[-1]: lines.pop()
RECURSIVE DropTrailingEmpty(_)
DropTrailingEmpty(lines) ==
    IF lines # <<>> /\ lines[Len(lines)] = <<>>
    THEN DropTrailingEmpty(SubSeq(lines, 1, Len(lines) - 1))
    ELSE lines

\* DropLeadingEmpty, with `if` for `while`: one empty line is popped
DropLeadingEmptyOnce(lines) ==
    IF lines # <<>> /\ lines[1] = <<>> THEN Tail(lines) ELSE lines

\* while lines and not lines[0]: lines.pop(0)
RECURSIVE DropLeadingEmpty(_)
DropLeadingEmpty(lines) ==
    IF lines # <<>> /\ lines[1] = <<>> THEN DropLeadingEmpty(Tail(lines)) ELSE lines

\* inspect.cleandoc(template)
cleandoc(doc) ==
    LET lines == SplitLines(doc)
        margin == MarginFrom(lines, 2)
        dedented == [i \in 1..Len(lines) |->
                        IF i = 1 THEN LStrip(lines[1])
                        ELSE IF margin = NoMargin THEN lines[i]
                        ELSE SubSeq(lines[i], margin + 1, Len(lines[i]))]
    IN  JoinLines(DropLeadingEmpty(DropTrailingEmpty(dedented)))

\* template.replace(" ", "").endswith("\n\n")
ends_with_linebreak(template) ==
    LET t == SelectSeq(template, LAMBDA c : c # SP)
    IN  Len(t) >= 2 /\ t[Len(t)] = NL /\ t[Len(t) - 1] = NL

\* \b at the position before s[i]
WordBoundary(s, i) ==
    (i > 1 /\ IsWord(s[i - 1])) # (i <= Len(s) /\ IsWord(s[i]))

\* (?![\r\n])(\b\s+) matches starting at s[i]
MatchesAt(s, i) ==
    /\ i <= Len(s)
    /\ s[i] # NL
    /\ WordBoundary(s, i)
    /\ IsSpace(s[i])

\* the position after the greedy \s+ that starts at s[i]
RECURSIVE RunEnd(_, _)
RunEnd(s, i) == IF i <= Len(s) /\ IsSpace(s[i]) THEN RunEnd(s, i + 1) ELSE i

\* re.sub(r"(?![\r\n])(\b\s+)", " ", s), scanning from position i
RECURSIVE SubFrom(_, _)
SubFrom(s, i) ==
    IF i > Len(s) THEN <<>>
    ELSE IF MatchesAt(s, i) THEN <<SP>> \o SubFrom(s, RunEnd(s, i))
    ELSE <<s[i]>> \o SubFrom(s, i + 1)

\* collapse, were the re.sub statement left out
collapseNothing(s) == s

collapse(s) == SubFrom(s, 1)

\* the cleaned_template of render
cleaned_template(template) ==
    LET cleaned == cleandoc(template)
    IN  collapse(IF ends_with_linebreak(template) THEN cleaned \o <<NL>> ELSE cleaned)

\* --------------------------------------------------- render: expansion
\* A substitution value: its Python kind, str(value), and eq, which names its
\* class under Python's == and hash (1 == True and hash(1) == hash(True))
Value(kind, repr, eq) == [kind |-> kind, repr |-> repr, eq |-> eq]

\* Hashable, were no value refused as a cache key
HashableAll(v) == TRUE

\* hash(value) succeeds: lists and dicts are unhashable
Hashable(v) == v.kind \notin {"list", "dict"}

ExprName(e) ==
    CASE e = "{{query}}" -> "query"
      [] e = "{{var}}" -> "var"
      [] e = "{{other_var}}" -> "other_var"
      [] e = "{{third}}" -> "third"

\* env.globals as set by render for model_name
GlobalValue(e, model_name) ==
    LET tok == TokensOf(model_name)
    IN  CASE e = "{{bos}}" -> tok.sequence.begin
          [] e = "{{eos}}" -> tok.sequence.end
          [] e = "{{user.begin}}" -> tok.user.begin
          [] e = "{{user.end}}" -> tok.user.end
          [] e = "{{assistant.begin}}" -> tok.assistant.begin
          [] e = "{{assistant.end}}" -> tok.assistant.end
          [] e = "{{system.begin}}" -> tok.system.begin
          [] e = "{{system.end}}" -> tok.system.end

\* StrictUndefined: an expression naming no value raises
Undefined(text, values) ==
    \E i \in 1..Len(text) : text[i] \in VarExprs /\ ExprName(text[i]) \notin DOMAIN values

\* jinja_template.render(**values) of a text all of whose names are defined
RECURSIVE Expand(_, _, _)
Expand(text, model_name, values) ==
    IF text = <<>> THEN <<>>
    ELSE LET c == Head(text)
             out == IF c \in VarExprs THEN Str(values[ExprName(c)].repr)
                    ELSE IF c \in GlobalExprs THEN Str(GlobalValue(c, model_name))
                    ELSE <<c>>
         IN  out \o Expand(Tail(text), model_name, values)

\* ------------------------------------------------------ render: lru_cache
\* The cache is the sequence of its entries, least recently used first.  A key
\* holds the arguments as the cache's dictionary compares them: by == and hash.
CacheKey(template, model_name, values) ==
    <<template, model_name, [n \in DOMAIN values |-> values[n].eq]>>

CacheHit(c, key) == \E i \in 1..Len(c) : c[i].key = key

CacheIndex(c, key) == CHOOSE i \in 1..Len(c) : c[i].key = key

\* a hit moves the entry to the most recently used end
Touch(c, key) ==
    LET i == CacheIndex(c, key)
    IN  SubSeq(c, 1, i - 1) \o SubSeq(c, i + 1, Len(c)) \o <<c[i]>>

\* a miss stores the result, evicting the least recently used entry when full
Store(c, key, result) ==
    Append(IF Len(c) >= maxsize THEN Tail(c) ELSE c, [key |-> key, result |-> result])

\* Warns, with the membership test inverted
WarnsKnown(model_name) == model_name \in DOMAIN SPECIAL_TOKENS

\* the unknown-model warning of the body of render
Warns(model_name) == model_name \notin DOMAIN SPECIAL_TOKENS

\* One call render(template, model_name, **values) with the cache c: what it
\* raises or returns, whether the body ran and warned, and the cache after it.
render(c, template, model_name, values) ==
    LET key == CacheKey(template, model_name, values)
        cleaned == cleaned_template(template)
    IN  IF \E n \in DOMAIN values : ~Hashable(values[n])
        THEN [outcome |-> "TypeError", out |-> <<>>, hit |-> FALSE,
              warned |-> FALSE, cache |-> c]
        ELSE IF CacheHit(c, key)
        THEN [outcome |-> "ok", out |-> c[CacheIndex(c, key)].result, hit |-> TRUE,
              warned |-> FALSE, cache |-> Touch(c, key)]
        ELSE IF Undefined(cleaned, values)
        THEN [outcome |-> "UndefinedError", out |-> <<>>, hit |-> FALSE,
              warned |-> Warns(model_name), cache |-> c]
        ELSE LET result == Expand(cleaned, model_name, values)
             IN  [outcome |-> "ok", out |-> result, hit |-> FALSE,
                  warned |-> Warns(model_name), cache |-> Store(c, key, result)]

\* --------------------------------------------- inspect.Signature binding
\* A signature is the sequence of its (positional-or-keyword) parameters.
Parameter(name, has_default, default) ==
    [name |-> name, has_default |-> has_default, default |-> default]

ParamNames(signature) == {signature[i].name : i \in 1..Len(signature)}

ParamIndex(signature, name) == CHOOSE i \in 1..Len(signature) : signature[i].name = name

\* BindFails, were a missing argument found by counting the arguments given
BindFailsByCount(signature, args, kwargs) ==
    \/ Len(args) > Len(signature)
    \/ \E k \in DOMAIN kwargs : k \notin ParamNames(signature)
    \/ \E i \in 1..Len(signature) :
          /\ i <= Len(args)
          /\ signature[i].name \in DOMAIN kwargs
    \/ Len(args) + Cardinality(DOMAIN kwargs)
          < Cardinality({i \in 1..Len(signature) : ~signature[i].has_default})

\* signature.bind(*args, **kwargs) raises TypeError
BindFails(signature, args, kwargs) ==
    \/ Len(args) > Len(signature)                          \* too many positional
    \/ \E k \in DOMAIN kwargs : k \notin ParamNames(signature)      \* unexpected keyword
    \/ \E i \in 1..Len(signature) :
          /\ i <= Len(args)
          /\ signature[i].name \in DOMAIN kwargs          \* multiple values
    \/ \E i \in 1..Len(signature) :
          /\ i > Len(args)
          /\ signature[i].name \notin DOMAIN kwargs
          /\ ~signature[i].has_default                    \* missing a required argument

\* bound_arguments.arguments after apply_defaults()
BoundArguments(signature, args, kwargs) ==
    [n \in ParamNames(signature) |->
        LET i == ParamIndex(signature, n)
        IN  IF i <= Len(args) THEN args[i]
            ELSE IF n \in DOMAIN kwargs THEN kwargs[n]
            ELSE signature[i].default]

\* ------------------------------------------------- the declared functions
\* inspect.Parameter.empty: the default of a parameter that has none
Empty == Value("empty", "", "empty")

VTest == Value("str", "test", "'test'")
VOther == Value("str", "other", "'other'")
VOne == Value("int", "1", "1")
VTrue == Value("bool", "True", "1")
VTuple == Value("tuple", "('one', 'two')", "('one', 'two')")
VList == Value("list", "['one', 'two']", "['one', 'two']")
VDict == Value("dict", "{'k': 'v'}", "{'k': 'v'}")

\* A prompt function: its docstring (has_doc is FALSE when __doc__ is None)
\* and its signature.
Function(has_doc, doc, signature) ==
    [has_doc |-> has_doc, doc |-> doc, signature |-> signature]

FnNames == {"simple_prompt", "simple_prompt_name", "test_kwarg_tpl", "three_params",
            "no_doc", "empty_doc"}

Fn(f) ==
    CASE f = "simple_prompt" ->
            Function(TRUE, <<NL, SP, SP, "{{bos}}", "{{query}}", NL, SP, SP>>,
                     <<Parameter("query", FALSE, Empty)>>)
      [] f = "simple_prompt_name" ->
            Function(TRUE, <<"name", ":", SP, "{{query}}", "{{eos}}">>,
                     <<Parameter("query", FALSE, Empty)>>)
      [] f = "test_kwarg_tpl" ->
            Function(TRUE, <<"{{var}}", SP, "and", SP, "{{other_var}}">>,
                     <<Parameter("var", FALSE, Empty), Parameter("other_var", TRUE, VOther)>>)
      [] f = "three_params" ->
            Function(TRUE, <<"{{var}}", "{{other_var}}", "{{third}}">>,
                     <<Parameter("var", FALSE, Empty), Parameter("other_var", TRUE, VOther),
                       Parameter("third", TRUE, VOther)>>)
      [] f = "no_doc" ->
            Function(FALSE, <<>>, <<Parameter("query", FALSE, Empty)>>)
      [] f = "empty_doc" ->
            Function(TRUE, <<>>, <<>>)

\* ---------------------------------------------------------------- state
VARIABLES
    heap,        \* the Template objects, by identity 1..Len(heap)
    cache,       \* render's lru_cache
    lookedUp,    \* per Template: the key of its latest unregistered Lookup
    registered,  \* per Template: key -> the Template last registered under it
    last         \* the operation just performed and what it gave

vars == <<heap, cache, lookedUp, registered, last>>

Ids == 1..Len(heap)

EmptyRegistry == [k \in {} |-> 0]

\* registry[key] = id
Put(registry, key, id) ==
    [k \in DOMAIN registry \cup {key} |-> IF k = key THEN id ELSE registry[k]]

\* the dataclass Template
Template(template, signature, model, registry) ==
    [template |-> template, signature |-> signature, model |-> model, registry |-> registry]

\* template(fn): raises TypeError when the docstring is None
template(f) ==
    [raised |-> ~Fn(f).has_doc,
     tpl |-> Template(Fn(f).doc, Fn(f).signature, None, EmptyRegistry)]

NoArgs == <<>>
NoKwargs == [k \in {} |-> Empty]

\* What `last` records of an operation: its name, the Template it was applied
\* to (t), the model name it used (m), the function (f), the arguments, the
\* template text and substitution values that reached render (reached), what
\* it raised (outcome), the Template (ret) or string (out) it returned, whether
\* render answered from its cache (hit) and warned, and the model t had
\* before (was).
NoOp ==
    [op |-> "init", t |-> 0, m |-> None, f |-> "", args |-> NoArgs, kwargs |-> NoKwargs,
     reached |-> FALSE, text |-> <<>>, values |-> NoKwargs,
     outcome |-> "ok", ret |-> 0, out |-> <<>>,
     hit |-> FALSE, warned |-> FALSE, was |-> None]

Init ==
    /\ heap = <<>>
    /\ cache = <<>>
    /\ lookedUp = <<>>
    /\ registered = <<>>
    /\ last = NoOp

\* tpl = template(fn), at module level
Construct(f, max) ==
    LET r == template(f)
    IN  IF r.raised
        THEN /\ last' = [NoOp EXCEPT !.op = "template", !.f = f, !.outcome = "TypeError"]
             /\ UNCHANGED <<heap, cache, lookedUp, registered>>
        ELSE /\ Len(heap) < max
             /\ heap' = Append(heap, r.tpl)
             /\ lookedUp' = Append(lookedUp, None)
             /\ registered' = Append(registered, EmptyRegistry)
             /\ last' = [NoOp EXCEPT !.op = "template", !.f = f, !.ret = Len(heap) + 1]
             /\ UNCHANGED cache

\* Lookup, were a missing key inserted the way a defaultdict inserts it
LookupInserting(t, model_name) ==
    IF model_name \in DOMAIN heap[t].registry
    THEN /\ last' = [NoOp EXCEPT !.op = "getitem", !.t = t, !.m = model_name,
                                 !.ret = heap[t].registry[model_name],
                                 !.was = heap[t].model]
         /\ UNCHANGED <<heap, cache, lookedUp, registered>>
    ELSE /\ heap' = [heap EXCEPT ![t].model = model_name,
                                 ![t].registry = Put(@, model_name, t)]
         /\ lookedUp' = [lookedUp EXCEPT ![t] = model_name]
         /\ last' = [NoOp EXCEPT !.op = "getitem", !.t = t, !.m = model_name,
                                 !.ret = t, !.was = heap[t].model]
         /\ UNCHANGED <<cache, registered>>

\* Lookup, were the model bound only while none is bound yet
LookupBindOnce(t, model_name) ==
    IF model_name \in DOMAIN heap[t].registry
    THEN /\ last' = [NoOp EXCEPT !.op = "getitem", !.t = t, !.m = model_name,
                                 !.ret = heap[t].registry[model_name],
                                 !.was = heap[t].model]
         /\ UNCHANGED <<heap, cache, lookedUp, registered>>
    ELSE /\ heap' = [heap EXCEPT ![t].model = IF @ = None THEN model_name ELSE @]
         /\ lookedUp' = [lookedUp EXCEPT ![t] = model_name]
         /\ last' = [NoOp EXCEPT !.op = "getitem", !.t = t, !.m = model_name,
                                 !.ret = t, !.was = heap[t].model]
         /\ UNCHANGED <<cache, registered>>

\* heap[t][model_name]
Lookup(t, model_name) ==
    IF model_name \in DOMAIN heap[t].registry
    THEN /\ last' = [NoOp EXCEPT !.op = "getitem", !.t = t, !.m = model_name,
                                 !.ret = heap[t].registry[model_name],
                                 !.was = heap[t].model]
         /\ UNCHANGED <<heap, cache, lookedUp, registered>>
    ELSE /\ heap' = [heap EXCEPT ![t].model = model_name]
         /\ lookedUp' = [lookedUp EXCEPT ![t] = model_name]
         /\ last' = [NoOp EXCEPT !.op = "getitem", !.t = t, !.m = model_name,
                                 !.ret = t, !.was = heap[t].model]
         /\ UNCHANGED <<cache, registered>>

\* Register, were an earlier entry kept (registry.setdefault)
RegisterKeepFirst(t, model_name, f, max) ==
    LET r == template(f)
        id == Len(heap) + 1
    IN  IF r.raised
        THEN /\ last' = [NoOp EXCEPT !.op = "register", !.t = t, !.m = model_name, !.f = f,
                                     !.outcome = "TypeError"]
             /\ UNCHANGED <<heap, cache, lookedUp, registered>>
        ELSE /\ Len(heap) < max
             /\ heap' = Append([heap EXCEPT ![t].registry = IF model_name \in DOMAIN @ THEN @ ELSE Put(@, model_name, id)],
                               [r.tpl EXCEPT !.model = model_name])
             /\ lookedUp' = Append(lookedUp, None)
             /\ registered' = Append([registered EXCEPT ![t] = Put(@, model_name, id)],
                                     EmptyRegistry)
             /\ last' = [NoOp EXCEPT !.op = "register", !.t = t, !.m = model_name, !.f = f,
                                     !.ret = id]
             /\ UNCHANGED cache

\* Register, were the entry stored under the function's name
RegisterByFunctionName(t, model_name, f, max) ==
    LET r == template(f)
        id == Len(heap) + 1
    IN  IF r.raised
        THEN /\ last' = [NoOp EXCEPT !.op = "register", !.t = t, !.m = model_name, !.f = f,
                                     !.outcome = "TypeError"]
             /\ UNCHANGED <<heap, cache, lookedUp, registered>>
        ELSE /\ Len(heap) < max
             /\ heap' = Append([heap EXCEPT ![t].registry = Put(@, f, id)],
                               [r.tpl EXCEPT !.model = model_name])
             /\ lookedUp' = Append(lookedUp, None)
             /\ registered' = Append([registered EXCEPT ![t] = Put(@, model_name, id)],
                                     EmptyRegistry)
             /\ last' = [NoOp EXCEPT !.op = "register", !.t = t, !.m = model_name, !.f = f,
                                     !.ret = id]
             /\ UNCHANGED cache

\* Register, were tpl.model = model_name left out
RegisterUnbound(t, model_name, f, max) ==
    LET r == template(f)
        id == Len(heap) + 1
    IN  IF r.raised
        THEN /\ last' = [NoOp EXCEPT !.op = "register", !.t = t, !.m = model_name, !.f = f,
                                     !.outcome = "TypeError"]
             /\ UNCHANGED <<heap, cache, lookedUp, registered>>
        ELSE /\ Len(heap) < max
             /\ heap' = Append([heap EXCEPT ![t].registry = Put(@, model_name, id)],
                               [r.tpl EXCEPT !.model = None])
             /\ lookedUp' = Append(lookedUp, None)
             /\ registered' = Append([registered EXCEPT ![t] = Put(@, model_name, id)],
                                     EmptyRegistry)
             /\ last' = [NoOp EXCEPT !.op = "register", !.t = t, !.m = model_name, !.f = f,
                                     !.ret = id]
             /\ UNCHANGED cache

\* Register, were the receiver stored in place of the new Template
RegisterSelf(t, model_name, f, max) ==
    LET r == template(f)
        id == Len(heap) + 1
    IN  IF r.raised
        THEN /\ last' = [NoOp EXCEPT !.op = "register", !.t = t, !.m = model_name, !.f = f,
                                     !.outcome = "TypeError"]
             /\ UNCHANGED <<heap, cache, lookedUp, registered>>
        ELSE /\ Len(heap) < max
             /\ heap' = Append([heap EXCEPT ![t].registry = Put(@, model_name, t)],
                               [r.tpl EXCEPT !.model = model_name])
             /\ lookedUp' = Append(lookedUp, None)
             /\ registered' = Append([registered EXCEPT ![t] = Put(@, model_name, id)],
                                     EmptyRegistry)
             /\ last' = [NoOp EXCEPT !.op = "register", !.t = t, !.m = model_name, !.f = f,
                                     !.ret = id]
             /\ UNCHANGED cache

\* heap[t].register(model_name)(fn)
Register(t, model_name, f, max) ==
    LET r == template(f)
        id == Len(heap) + 1
    IN  IF r.raised
        THEN /\ last' = [NoOp EXCEPT !.op = "register", !.t = t, !.m = model_name, !.f = f,
                                     !.outcome = "TypeError"]
             /\ UNCHANGED <<heap, cache, lookedUp, registered>>
        ELSE /\ Len(heap) < max
             /\ heap' = Append([heap EXCEPT ![t].registry = Put(@, model_name, id)],
                               [r.tpl EXCEPT !.model = model_name])
             /\ lookedUp' = Append(lookedUp, None)
             /\ registered' = Append([registered EXCEPT ![t] = Put(@, model_name, id)],
                                     EmptyRegistry)
             /\ last' = [NoOp EXCEPT !.op = "register", !.t = t, !.m = model_name, !.f = f,
                                     !.ret = id]
             /\ UNCHANGED cache

\* a render call may store a new entry only while the cache holds fewer than
\* `room` entries (the bound of the model on the cache)
Admits(r, room) == Len(r.cache) <= room

\* Call, were the Template's model not passed on to render
CallDefaultModel(t, args, kwargs, room) ==
    IF BindFails(heap[t].signature, args, kwargs)
    THEN /\ last' = [NoOp EXCEPT !.op = "call", !.t = t, !.m = heap[t].model,
                                 !.args = args, !.kwargs = kwargs,
                                 !.outcome = "TypeError"]
         /\ UNCHANGED <<heap, cache, lookedUp, registered>>
    ELSE LET values == BoundArguments(heap[t].signature, args, kwargs)
             r == render(cache, heap[t].template, None, values)
         IN  /\ Admits(r, room)
             /\ cache' = r.cache
             /\ last' = [NoOp EXCEPT !.op = "call", !.t = t, !.m = heap[t].model,
                                     !.args = args, !.kwargs = kwargs,
                                     !.reached = TRUE,
                                     !.text = heap[t].template, !.values = values,
                                     !.outcome = r.outcome, !.out = r.out,
                                     !.hit = r.hit, !.warned = r.warned]
             /\ UNCHANGED <<heap, lookedUp, registered>>

\* heap[t](*args, **kwargs)
Call(t, args, kwargs, room) ==
    IF BindFails(heap[t].signature, args, kwargs)
    THEN /\ last' = [NoOp EXCEPT !.op = "call", !.t = t, !.m = heap[t].model,
                                 !.args = args, !.kwargs = kwargs,
                                 !.outcome = "TypeError"]
         /\ UNCHANGED <<heap, cache, lookedUp, registered>>
    ELSE LET values == BoundArguments(heap[t].signature, args, kwargs)
             r == render(cache, heap[t].template, heap[t].model, values)
         IN  /\ Admits(r, room)
             /\ cache' = r.cache
             /\ last' = [NoOp EXCEPT !.op = "call", !.t = t, !.m = heap[t].model,
                                     !.args = args, !.kwargs = kwargs,
                                     !.reached = TRUE,
                                     !.text = heap[t].template, !.values = values,
                                     !.outcome = r.outcome, !.out = r.out,
                                     !.hit = r.hit, !.warned = r.warned]
             /\ UNCHANGED <<heap, lookedUp, registered>>

\* render(template, model_name, **values), called directly
Render(text, model_name, values, room) ==
    LET r == render(cache, text, model_name, values)
    IN  /\ Admits(r, room)
        /\ cache' = r.cache
        /\ last' = [NoOp EXCEPT !.op = "render", !.m = model_name,
                                !.reached = TRUE, !.text = text, !.values = values,
                                !.outcome = r.outcome, !.out = r.out,
                                !.hit = r.hit, !.warned = r.warned]
        /\ UNCHANGED <<heap, lookedUp, registered>>

\* ------------------------------------------------- the dispatch machine
\* One default Template is declared with template and the other Templates
\* are registered on it; every Template is looked up and called (with one
\* string).
ModelNames == {"google/gemma-2-9b", "gpt2"}

\* positional argument lists of at most n values drawn from S
ArgLists(S, n) == UNION {[1..k -> S] : k \in 0..n}

\* keyword arguments: any of the keywords K, valued in S
Keywords(K, S) == UNION {[D -> S] : D \in SUBSET K}

Next ==
    \/ \E f \in {"simple_prompt", "no_doc"} : heap = <<>> /\ Construct(f, MaxTemplates)
    \/ \E t \in Ids, m \in ModelNames : Lookup(t, m)
    \/ \E m \in ModelNames, f \in {"simple_prompt_name", "no_doc"} :
          heap # <<>> /\ Register(1, m, f, MaxTemplates)
    \/ \E t \in Ids : Call(t, <<VTest>>, NoKwargs, MaxCached)

Spec == Init /\ [][Next]_vars

\* -------------------------------------------------- the binding machine
\* One Template declared from any function, Templates registered on it, and
\* Calls with every shape of argument list.
KwNames == {"var", "other_var", "third", "v"}

NextBind ==
    \/ \E f \in {"simple_prompt", "three_params", "no_doc", "empty_doc"} :
          heap = <<>> /\ Construct(f, MaxBound)
    \/ \E t \in Ids : Lookup(t, "gpt2")
    \/ \E f \in {"empty_doc", "no_doc"} : heap # <<>> /\ Register(1, "gpt2", f, MaxBound)
    \/ \E t \in Ids, args \in ArgLists({VTest}, MaxArgs), kwargs \in Keywords(KwNames, {VTest}) :
          Call(t, args, kwargs, MaxCached)

SpecBind == Init /\ [][NextBind]_vars

\* --------------------------------------------------- the render machine
\* render called directly and through one Template, with values of every kind.
Values == {VTest, VOne, VTrue, VTuple, VList, VDict}

Texts == {Fn("simple_prompt").doc, <<"A", SP, "B">>}

NextRender ==
    \/ heap = <<>> /\ Construct("simple_prompt", MaxBound)
    \/ \E t \in Ids, m \in ModelNames : Lookup(t, m)
    \/ \E t \in Ids, v \in Values : Call(t, <<v>>, NoKwargs, MaxMemo)
    \/ \E text \in Texts, m \in ModelNames \cup {None}, values \in Keywords({"query"}, Values) :
          Render(text, m, values, MaxMemo)

SpecRender == Init /\ [][NextRender]_vars

\* ----------------------------------------------------------- the claims
\* the step just taken is a Lookup on a Template whose registry lacks the key
UnregisteredLookupStep ==
    /\ last'.op = "getitem"
    /\ last'.m \notin DOMAIN heap[last'.t].registry

\* the step just taken is a Lookup on a Template whose registry holds the key
RegisteredLookupStep ==
    /\ last'.op = "getitem"
    /\ last'.m \in DOMAIN heap[last'.t].registry

\* C1: a Lookup with a key that is not in the Template's registry returns the
\* Template itself, sets its model to the key and leaves its registry as it
\* was, with no entry for the key.
C1_UnregisteredLookup ==
    [][UnregisteredLookupStep =>
          /\ last'.ret = last'.t
          /\ heap'[last'.t].model = last'.m
          /\ heap'[last'.t].registry = heap[last'.t].registry
          /\ last'.m \notin DOMAIN heap'[last'.t].registry]_vars

\* an unregistered Lookup was made on a Template that holds a registry entry
\* and that was bound to another model before
C1_Witness ==
    /\ last.op = "getitem"
    /\ last.ret = last.t
    /\ heap[last.t].model = last.m
    /\ heap[last.t].registry # EmptyRegistry
    /\ last.was \notin {None, last.m}

\* C2: a Lookup with a key of the Template's registry returns the Template
\* most recently registered under that key and changes neither the model nor
\* the registry of any Template.
C2_RegisteredLookup ==
    [][RegisteredLookupStep =>
          /\ last'.ret = registered[last'.t][last'.m]
          /\ heap' = heap]_vars

\* a registered Lookup on a Template never bound to a model returned the
\* second Template registered under the key
C2_Witness ==
    /\ last.op = "getitem"
    /\ last.ret # last.t
    /\ heap[last.t].model = None
    /\ lookedUp[last.t] = None
    /\ last.ret = 3
    /\ Cardinality(DOMAIN heap[last.t].registry) = 1

\* the step just taken is a successful Register
RegisterStep == last'.op = "register" /\ last'.outcome = "ok"

LookupThenCallStep ==
    /\ last.op = "getitem"
    /\ last.ret = last.t
    /\ last.m \notin DOMAIN heap[last.t].registry
    /\ last.was = None
    /\ last'.op = "call"
    /\ last'.t = last.t
    /\ last'.outcome = "ok"

\* C4 as stated: T[m](args) with m unregistered returns the string T(args)
\* returns with no model bound, rendered with the default empty tokens.
C4_FallbackEqualsDefault ==
    [][LookupThenCallStep =>
          last'.out = Expand(cleaned_template(last'.text), None, last'.values)]_vars

\* C4 as amended: T[m](args) with m unregistered returns T's text rendered
\* with the special tokens of m; that is the string T(args) returns with no
\* model bound whenever m is not in the special-token table.
C4_FallbackRendersWithModel ==
    [][LookupThenCallStep =>
          /\ last'.out = Expand(cleaned_template(last'.text), last.m, last'.values)
          /\ last.m \notin DOMAIN SPECIAL_TOKENS =>
                last'.out = Expand(cleaned_template(last'.text), None, last'.values)]_vars

\* a Template whose text uses {{bos}} was looked up under a model unknown to
\* the table and then called: the string is the default one
C4_Witness ==
    /\ last.op = "call"
    /\ last.outcome = "ok"
    /\ last.m = "gpt2"
    /\ lookedUp[last.t] = "gpt2"
    /\ \E i \in 1..Len(last.text) : last.text[i] = "{{bos}}"
    /\ last.out = <<"test">>

\* C5: once a Lookup with an unregistered key m was made on a Template, every
\* Call on that Template renders with the special tokens of the key of the
\* latest such Lookup: the table's entry for it, or the default empty tokens.
C5_BoundModelPersists ==
    (last.op = "call" /\ last.outcome = "ok" /\ lookedUp[last.t] # None) =>
        last.out = Expand(cleaned_template(last.text), lookedUp[last.t], last.values)

\* a Call rendered with the tokens of the latest unregistered Lookup, on a
\* Template that holds an entry registered under another key
C5_Witness ==
    /\ last.op = "call"
    /\ last.outcome = "ok"
    /\ lookedUp[last.t] = "google/gemma-2-9b"
    /\ heap[last.t].registry # EmptyRegistry
    /\ last.out = <<"<bos>", "test">>

\* C6 as stated: for every key m of a registry, the Template registered under
\* m has model m.
C6_EntriesBoundToKey ==
    \A t \in Ids : \A m \in DOMAIN heap[t].registry :
        heap[heap[t].registry[m]].model = m

\* C6 as amended: for every key m of a registry, the Template registered
\* under m has model m until a Lookup with a key that its own registry lacks
\* is made on that Template; from then on its model is the key of the latest
\* such Lookup.
C6_EntriesBoundUntilLookedUp ==
    \A t \in Ids : \A m \in DOMAIN heap[t].registry :
        LET e == heap[t].registry[m]
        IN  heap[e].model = IF lookedUp[e] = None THEN m ELSE lookedUp[e]

\* an entry was looked up under a key other than its own
C6_Witness ==
    \E t \in Ids : \E m \in DOMAIN heap[t].registry :
        /\ lookedUp[heap[t].registry[m]] \notin {None, m}
        /\ last.op = "getitem"
        /\ last.t = heap[t].registry[m]

\* the arguments omit a parameter that has no default
OmitsRequired(signature, args, kwargs) ==
    \E i \in 1..Len(signature) :
        /\ ~signature[i].has_default
        /\ i > Len(args)
        /\ signature[i].name \notin DOMAIN kwargs

\* the arguments name a keyword that is no parameter
UnknownKeyword(signature, kwargs) ==
    \E k \in DOMAIN kwargs : \A i \in 1..Len(signature) : signature[i].name # k

\* the step just taken is a Call whose arguments do not fit the signature
MismatchedCallStep ==
    /\ last'.op = "call"
    /\ LET signature == heap[last'.t].signature
       IN  \/ OmitsRequired(signature, last'.args, last'.kwargs)
           \/ UnknownKeyword(signature, last'.kwargs)
           \/ Len(last'.args) > Len(signature)

\* C7: a Call that omits a required parameter, whatever optional parameters
\* it supplies, or names an unknown keyword, or passes too many positional
\* arguments, raises TypeError; render is not reached, nothing is rendered or
\* cached, and no Template's model or registry changes.
C7_MismatchRaises ==
    [][MismatchedCallStep =>
          /\ last'.outcome = "TypeError"
          /\ ~last'.reached
          /\ ~last'.warned
          /\ last'.out = <<>>
          /\ cache' = cache
          /\ heap' = heap]_vars

\* a Call supplied both optional parameters and omitted the required one, on
\* a Template bound to a model and holding a registry entry
C7_Witness ==
    /\ last.op = "call"
    /\ last.outcome = "TypeError"
    /\ last.args = <<>>
    /\ DOMAIN last.kwargs = {"other_var", "third"}
    /\ Len(heap[last.t].signature) = 3
    /\ heap[last.t].model = "gpt2"
    /\ heap[last.t].registry # EmptyRegistry

\* C8 as stated: building a Template, with template or with Register, from a
\* function whose docstring is absent or empty raises and produces no
\* Template.
C8_NoTextBodyRaises ==
    (/\ last.op \in {"template", "register"}
     /\ (~Fn(last.f).has_doc \/ Fn(last.f).doc = <<>>)) =>
        (last.outcome = "TypeError" /\ last.ret = 0)

\* the operation just performed called render
RenderCalled == last.reached

UnknownModel(model_name) == model_name \notin DOMAIN SPECIAL_TOKENS

\* C9 as stated: every call of render with a model unknown to the table warns
\* and returns the text rendered with the default tokens; a call with no
\* model or a known model does not warn.
C9_EveryCallWarns ==
    (RenderCalled /\ last.outcome = "ok") =>
        IF UnknownModel(last.m)
        THEN /\ last.warned
             /\ last.out = Expand(cleaned_template(last.text), None, last.values)
        ELSE ~last.warned

\* C9 as amended: a call of render warns exactly when its model is unknown to
\* the table and the body of render runs, that is when its values are
\* hashable and its arguments are not in the cache; such a call returns the
\* text rendered with the default tokens.  A call answered from the cache
\* returns the cached string without a warning.
C9_BodyWarns ==
    RenderCalled =>
        /\ last.warned <=>
              (UnknownModel(last.m) /\ ~last.hit /\ last.outcome # "TypeError")
        /\ (last.outcome = "ok" /\ ~last.hit /\ UnknownModel(last.m)) =>
              last.out = Expand(cleaned_template(last.text), None, last.values)
        /\ last.hit =>
              /\ last.outcome = "ok"
              /\ \E i \in 1..Len(cache) :
                    /\ cache[i].key = CacheKey(last.text, last.m, last.values)
                    /\ cache[i].result = last.out

\* a Call through a Template bound to an unknown model was answered from the
\* cache, without a warning
C9_Witness ==
    /\ last.op = "call"
    /\ last.hit
    /\ UnknownModel(last.m)
    /\ ~last.warned
    /\ last.out = <<"test">>

\* every name the text uses has a value
AllDefined == ~Undefined(cleaned_template(last.text), last.values)

\* C10 as stated: render returns a string for values of every kind; a list or
\* a mapping bypasses the cache and does not make the call fail.
C10_EveryKindRenders ==
    (RenderCalled /\ AllDefined) => last.outcome = "ok"

\* C10 as amended: render returns a string for hashable values of every kind
\* (strings, numbers, booleans, tuples), the rendered text unless the cache
\* answers; an unhashable value (a list, a mapping) makes the call raise
\* TypeError before anything is rendered or warned.
C10_HashableKindsRender ==
    (RenderCalled /\ AllDefined) =>
        IF \E n \in DOMAIN last.values : last.values[n].kind \in {"list", "dict"}
        THEN /\ last.outcome = "TypeError"
             /\ last.out = <<>>
             /\ ~last.warned
             /\ ~last.hit
        ELSE /\ last.outcome = "ok"
             /\ ~last.hit =>
                   last.out = Expand(cleaned_template(last.text), last.m, last.values)

\* a Call with a mapping as its value raised TypeError
C10_Witness ==
    /\ last.op = "call"
    /\ last.reached
    /\ last.values["query"].kind = "dict"
    /\ last.outcome = "TypeError"

\* ------------------------------------------------ the normalizer machine
\* The first statements of render, one at a time, on every short template.
\* An author's string literal is a text that may hold the continuation
\* marker: a backslash followed by the line break it escapes.
MaxLen == 5            \* symbols of a literal without a marker
MaxGap == 3            \* spaces on either side of a continuation marker

CONT == "\\\n"

Alphabet == {SP, NL, "A", ":"}

Literals(n) == UNION {[1..k -> Alphabet] : k \in 0..n}

Spaces(n) == [k \in 1..n |-> SP]

\* a word, s spaces, the marker, the i spaces that indent the next physical
\* line, and the next word
Continuation(s, i) == <<"A">> \o Spaces(s) \o <<CONT>> \o Spaces(i) \o <<"B">>

\* the str a literal denotes: Python drops a backslash and the line break after it
Evaluated(literal) == SelectSeq(literal, LAMBDA c : c # CONT)

\* What `last` records in this machine: the literal, the str passed to render
\* (template), the statement that ran last (op), cleaned_template before and
\* after it (before, cleaned), which pass over the text this is (pass) and
\* what the first pass returned (first).
Normalizing(literal) ==
    [op |-> "literal", literal |-> literal, template |-> <<>>,
     before |-> <<>>, cleaned |-> <<>>, pass |-> 1, first |-> <<>>]

InitNorm ==
    /\ heap = <<>>
    /\ cache = <<>>
    /\ lookedUp = <<>>
    /\ registered = <<>>
    /\ last \in {Normalizing(l) : l \in Literals(MaxLen)}
              \cup {Normalizing(Continuation(s, i)) : s \in 0..MaxGap, i \in 0..MaxGap}

\* the literal is evaluated and passed to render
Evaluate ==
    /\ last.op = "literal"
    /\ last' = [last EXCEPT !.op = "template", !.template = Evaluated(last.literal)]
    /\ UNCHANGED <<heap, cache, lookedUp, registered>>

\* cleaned_template = inspect.cleandoc(template)
Cleandoc ==
    /\ last.op = "template"
    /\ last' = [last EXCEPT !.op = "cleandoc", !.before = last.template,
                            !.cleaned = cleandoc(last.template)]
    /\ UNCHANGED <<heap, cache, lookedUp, registered>>

\* if ends_with_linebreak: cleaned_template += "\n"
Restore ==
    /\ last.op = "cleandoc"
    /\ last' = [last EXCEPT !.op = "restore", !.before = last.cleaned,
                            !.cleaned = IF ends_with_linebreak(last.template)
                                        THEN last.cleaned \o <<NL>> ELSE last.cleaned]
    /\ UNCHANGED <<heap, cache, lookedUp, registered>>

\* cleaned_template = re.sub(r"(?![\r\n])(\b\s+)", " ", cleaned_template)
Collapse ==
    /\ last.op = "restore"
    /\ last' = [last EXCEPT !.op = "collapse", !.before = last.cleaned,
                            !.cleaned = collapse(last.cleaned)]
    /\ UNCHANGED <<heap, cache, lookedUp, registered>>

\* the normalized text is passed to render as a template
Again ==
    /\ last.op = "collapse"
    /\ last.pass = 1
    /\ last' = [last EXCEPT !.op = "template", !.template = last.cleaned,
                            !.before = <<>>, !.cleaned = <<>>,
                            !.pass = 2, !.first = last.cleaned]
    /\ UNCHANGED <<heap, cache, lookedUp, registered>>

NextNorm == Evaluate \/ Cleandoc \/ Restore \/ Collapse \/ Again

SpecNorm == InitNorm /\ [][NextNorm]_vars

\* the normalizer has run on the author's text / on its own output
Normalized == last.op = "collapse" /\ last.pass = 1
Renormalized == last.op = "collapse" /\ last.pass = 2

\* ----------------------------------------------- claims on the normalizer
\* a line of spaces only (or empty)
Blank(line) == \A k \in 1..Len(line) : line[k] = SP

NonBlank(line) == ~Blank(line)

\* the text, ignoring plain spaces, ends with one or more fully blank lines
EndsWithBlankLine(t) ==
    LET lines == SplitLines(t)
        n == Len(lines)
    IN  n >= 3 /\ Blank(lines[n]) /\ Blank(lines[n - 1])

EndsWithLinebreak(s) == s # <<>> /\ s[Len(s)] = NL

EndsWithOneLinebreak(s) ==
    EndsWithLinebreak(s) /\ (Len(s) >= 2 => s[Len(s) - 1] # NL)

\* C11: the normalized text ends with exactly one line-break when the
\* template, ignoring plain spaces, ends with one or more fully blank lines,
\* whatever their number and whatever the last text line holds, and with no
\* line-break when the template has no trailing blank line.
C11_TrailingLinebreak ==
    Normalized =>
        IF EndsWithBlankLine(last.template)
        THEN EndsWithOneLinebreak(last.cleaned)
        ELSE ~EndsWithLinebreak(last.cleaned)

\* the position after the run of spaces that starts at s[i]
RECURSIVE SpaceRunEnd(_, _)
SpaceRunEnd(s, i) == IF i <= Len(s) /\ s[i] = SP THEN SpaceRunEnd(s, i + 1) ELSE i

\* The collapsing as specified, from position i: each maximal run of spaces
\* becomes one space unless it immediately follows a line break, and every
\* other symbol is kept.
RECURSIVE CollapsedFrom(_, _)
CollapsedFrom(s, i) ==
    IF i > Len(s) THEN <<>>
    ELSE IF s[i] # SP THEN <<s[i]>> \o CollapsedFrom(s, i + 1)
    ELSE IF i > 1 /\ s[i - 1] = NL
         THEN SubSeq(s, i, SpaceRunEnd(s, i) - 1) \o CollapsedFrom(s, SpaceRunEnd(s, i))
    ELSE <<SP>> \o CollapsedFrom(s, SpaceRunEnd(s, i))

Linebreaks(s) == Len(SelectSeq(s, LAMBDA c : c = NL))

\* C16: the third statement replaces every maximal run of spaces that does
\* not immediately follow a line-break by one space, whatever precedes the
\* run, and changes nothing else; its output has as many line-breaks as its
\* input.
C16_CollapseAsSpecified ==
    last.op = "collapse" =>
        /\ last.cleaned = CollapsedFrom(last.before, 1)
        /\ Linebreaks(last.cleaned) = Linebreaks(last.before)

\* the literal is a word, s spaces, the marker, i spaces and a word
Continues(s, i) == Normalized /\ last.literal = Continuation(s, i)

Least(S) == CHOOSE k \in S : \A j \in S : k <= j

\* the lines of a text that are not blank, in order
TextLines(t) == SelectSeq(SplitLines(t), NonBlank)

\* the indentations of the non-blank lines after the first line of t
LaterIndents(t) ==
    LET lines == SplitLines(t)
    IN  {Indent(lines[j]) : j \in {k \in 2..Len(lines) : NonBlank(lines[k])}}

\* no leading blank line, and every non-blank line is indented by k
Uniform(t, k) ==
    LET lines == SplitLines(t)
    IN  /\ NonBlank(lines[1])
        /\ \A j \in 1..Len(lines) : NonBlank(lines[j]) => Indent(lines[j]) = k

\* C13: when the template has no leading blank line and its non-blank lines
\* all have indentation k, every line of the normalized text is that line
\* less k leading columns; in general each line after the first loses exactly
\* the least indentation of the non-blank lines after the first, so that a
\* nested line keeps its extra indentation.
C13_Dedent ==
    Normalized =>
        LET t == last.template
            in == TextLines(t)
            out == TextLines(last.cleaned)
            first == IF NonBlank(SplitLines(t)[1]) THEN 1 ELSE 0
        IN  /\ Len(out) = Len(in)
            /\ \A j \in 1..Len(in) :
                  IF j > first
                  THEN Indent(out[j]) = Indent(in[j]) - Least(LaterIndents(t))
                  ELSE \A k \in 0..Len(t) : Uniform(t, k) => Indent(out[j]) = Indent(in[j]) - k

\* C14 (as claimed): normalizing a normalized text gives the same text, for
\* every template.
C14_Idempotent == Renormalized => last.cleaned = last.first

\* a text the dedent leaves alone: it does not start with a space, and of
\* its non-blank lines after the first (if any) one is not indented
Flush(s) ==
    /\ s # <<>> => s[1] # SP
    /\ LaterIndents(s) # {} => 0 \in LaterIndents(s)

\* C14 (amended): normalizing a normalized text gives the same text when that
\* text does not end with a line-break, does not start with a space, and has
\* no non-blank line after its first or has one that is not indented.
C14_IdempotentOnFlushTexts ==
    Renormalized /\ ~EndsWithLinebreak(last.first) /\ Flush(last.first) =>
        last.cleaned = last.first

C14_Witness ==
    /\ Renormalized
    /\ last.literal = <<SP, "A", NL, SP, "A">>
    /\ last.first = <<"A", NL, "A">>
    /\ last.cleaned = last.first

\* ------------------------------------------------- claims on the cache
\* the step calls render, which returns a string
RenderReturns == last'.reached /\ last'.outcome = "ok"

\* C17: a call of render whose (template, model name, values) equal those of
\* an earlier successful call returns the string that call computed, without
\* computing it again, whatever was called in between; and the string
\* returned always equals what render computes without a cache.
C17_Memoized ==
    [][RenderReturns =>
          LET key == CacheKey(last'.text, last'.m, last'.values)
          IN  /\ CacheHit(cache, key) =>
                    /\ last'.hit
                    /\ last'.out = cache[CacheIndex(cache, key)].result
              /\ last'.out = Expand(cleaned_template(last'.text), last'.m, last'.values)]_vars

\* --------------------------------------------------- the nesting machine
\* Templates are declared and registered on any Template, also on one that is
\* itself an entry of a registry, and the function registered may be a
\* Template object.
MaxNested == 3         \* Template objects of the nesting machine
MaxNestCached == 1     \* cache entries of the nesting machine

\* Template.__doc__, which a Template instance passed as fn shows as its
\* docstring (abridged to its first sentence)
TemplateDoc == <<"Represents", SP, "a", SP, "prompt", SP, "template", ".">>

\* inspect.signature of a Template instance: that of __call__, (*args, **kwargs)
VarSignature ==
    <<[name |-> "args", kind |-> "VAR_POSITIONAL"], [name |-> "kwargs", kind |-> "VAR_KEYWORD"]>>

\* heap[t].register(model_name)(heap[u]): the function registered is a Template
RegisterTemplate(t, model_name, u, max) ==
    LET id == Len(heap) + 1
        tpl == Template(TemplateDoc, VarSignature, None, EmptyRegistry)
    IN  /\ Len(heap) < max
        /\ heap' = Append([heap EXCEPT ![t].registry = Put(@, model_name, id)],
                          [tpl EXCEPT !.model = model_name])
        /\ lookedUp' = Append(lookedUp, None)
        /\ registered' = Append([registered EXCEPT ![t] = Put(@, model_name, id)],
                                EmptyRegistry)
        /\ last' = [NoOp EXCEPT !.op = "register", !.t = t, !.m = model_name,
                                !.f = "Template", !.ret = id] @@ [fn |-> u]
        /\ UNCHANGED cache

\* heap[t](*args, **kwargs) where heap[t] was made from a Template: every
\* argument list binds, and render is passed args (a tuple) and kwargs (a
\* dict), which the cache cannot hash
CallVariadic(t, args, kwargs) ==
    /\ heap[t].signature = VarSignature
    /\ last' = [NoOp EXCEPT !.op = "call", !.t = t, !.m = heap[t].model,
                            !.args = args, !.kwargs = kwargs, !.reached = TRUE,
                            !.text = heap[t].template, !.outcome = "TypeError"]
    /\ UNCHANGED <<heap, cache, lookedUp, registered>>

NextNest ==
    \/ heap = <<>> /\ Construct("simple_prompt", MaxNested)
    \/ \E t \in Ids : Lookup(t, "gpt2")
    \/ \E t \in Ids : Register(t, "gpt2", "simple_prompt_name", MaxNested)
    \/ \E t \in Ids, u \in Ids : RegisterTemplate(t, "gpt2", u, MaxNested)
    \/ \E t \in Ids : heap[t].signature # VarSignature /\ Call(t, <<VTest>>, NoKwargs, MaxNestCached)
    \/ \E t \in Ids : CallVariadic(t, <<VTest>>, NoKwargs)

SpecNest == Init /\ [][NextNest]_vars

\* C18: in every state reached by construction, Register (also of a function
\* that is itself a Template, also on a Template that is an entry of another
\* registry), Lookup and Call, no Template is a value of its own registry.
C18_NoSelfReference ==
    \A t \in Ids : \A k \in DOMAIN heap[t].registry : heap[t].registry[k] # t

\* a Template that is an entry of a registry was registered on itself as the
\* function, and is still not its own entry
C18_Witness ==
    /\ last.op = "register"
    /\ last.f = "Template"
    /\ last.fn = last.t
    /\ \E r \in Ids : \E k \in DOMAIN heap[r].registry : heap[r].registry[k] = last.t
    /\ heap[last.t].registry[last.m] = last.ret
    /\ last.ret # last.t

\* ------------------------------------------------ the concurrent machine
\* Two callers share the Template T (heap[1]) and render's cache.  Each runs
\* one operation, T.register(m)(fn) or T[m](args), a statement at a time, and
\* the statements of the two interleave in every order.  Here `last` holds
\* one frame per caller: its operation (op), its next statement (pc), its
\* arguments (m, f, args) and its locals: tpl of wrapper, the Template that
\* T[m] returned (got), and what the operation returned or raised.
Callers == {1, 2}

T == 1

KnownModels == {"google/gemma-2-9b", "mistralai/Mistral-7B-v0.1"}

\* the argument lists of the callers: one string, or none
CallArgs == {<<VTest>>, <<VOther>>, NoArgs}

Idle ==
    [op |-> "none", pc |-> "idle", m |-> None, f |-> "", args |-> NoArgs,
     tpl |-> 0, got |-> 0, outcome |-> "ok", ret |-> 0, out |-> <<>>]

InitThreads ==
    /\ heap = <<template("simple_prompt").tpl>>
    /\ cache = <<>>
    /\ lookedUp = <<None>>
    /\ registered = <<EmptyRegistry>>
    /\ last = [p \in Callers |-> Idle]

\* caller p starts T.register(model_name)(fn)
EnterRegister(p, model_name, f) ==
    /\ last[p].pc = "idle"
    /\ last' = [last EXCEPT ![p] = [Idle EXCEPT !.op = "register", !.pc = "template",
                                                !.m = model_name, !.f = f]]
    /\ UNCHANGED <<heap, cache, lookedUp, registered>>

\* wrapper: tpl = template(fn)
WrapperTemplate(p) ==
    /\ last[p].pc = "template"
    /\ LET r == template(last[p].f)
       IN  IF r.raised
           THEN /\ last' = [last EXCEPT ![p].pc = "done", ![p].outcome = "TypeError"]
                /\ UNCHANGED <<heap, lookedUp, registered>>
           ELSE /\ heap' = Append(heap, r.tpl)
                /\ lookedUp' = Append(lookedUp, None)
                /\ registered' = Append(registered, EmptyRegistry)
                /\ last' = [last EXCEPT ![p].pc = "model", ![p].tpl = Len(heap) + 1]
    /\ UNCHANGED cache

\* wrapper: tpl.model = model_name
WrapperModel(p) ==
    /\ last[p].pc = "model"
    /\ heap' = [heap EXCEPT ![last[p].tpl].model = last[p].m]
    /\ last' = [last EXCEPT ![p].pc = "registry"]
    /\ UNCHANGED <<cache, lookedUp, registered>>

\* WrapperRegistry, were the registry replaced by one that holds the new entry
WrapperRegistryReplaced(p) ==
    /\ last[p].pc = "registry"
    /\ heap' = [heap EXCEPT ![T].registry = Put(EmptyRegistry, last[p].m, last[p].tpl)]
    /\ registered' = [registered EXCEPT ![T] = Put(@, last[p].m, last[p].tpl)]
    /\ last' = [last EXCEPT ![p].pc = "done", ![p].ret = last[p].tpl]
    /\ UNCHANGED <<cache, lookedUp>>

\* wrapper: self.registry[model_name] = tpl; return tpl
WrapperRegistry(p) ==
    /\ last[p].pc = "registry"
    /\ heap' = [heap EXCEPT ![T].registry = Put(@, last[p].m, last[p].tpl)]
    /\ registered' = [registered EXCEPT ![T] = Put(@, last[p].m, last[p].tpl)]
    /\ last' = [last EXCEPT ![p].pc = "done", ![p].ret = last[p].tpl]
    /\ UNCHANGED <<cache, lookedUp>>

\* caller p starts T[model_name](*args)
EnterLookupCall(p, model_name, args) ==
    /\ last[p].pc = "idle"
    /\ last' = [last EXCEPT ![p] = [Idle EXCEPT !.op = "lookup-call", !.pc = "getitem",
                                                !.m = model_name, !.args = args]]
    /\ UNCHANGED <<heap, cache, lookedUp, registered>>

\* Getitem, were a Template that is bound to a model not bound again
GetitemBindOnce(p) ==
    /\ last[p].pc = "getitem"
    /\ IF last[p].m \in DOMAIN heap[T].registry
       THEN /\ last' = [last EXCEPT ![p].pc = "call", ![p].got = heap[T].registry[last[p].m]]
            /\ UNCHANGED <<heap, lookedUp>>
       ELSE /\ heap' = [heap EXCEPT ![T].model = IF @ = None THEN last[p].m ELSE @]
            /\ lookedUp' = [lookedUp EXCEPT ![T] = last[p].m]
            /\ last' = [last EXCEPT ![p].pc = "call", ![p].got = T]
    /\ UNCHANGED <<cache, registered>>

\* __getitem__: the registered entry, or self with self.model = model_name
Getitem(p) ==
    /\ last[p].pc = "getitem"
    /\ IF last[p].m \in DOMAIN heap[T].registry
       THEN /\ last' = [last EXCEPT ![p].pc = "call", ![p].got = heap[T].registry[last[p].m]]
            /\ UNCHANGED <<heap, lookedUp>>
       ELSE /\ heap' = [heap EXCEPT ![T].model = last[p].m]
            /\ lookedUp' = [lookedUp EXCEPT ![T] = last[p].m]
            /\ last' = [last EXCEPT ![p].pc = "call", ![p].got = T]
    /\ UNCHANGED <<cache, registered>>

\* __call__ of the Template that __getitem__ returned
CallGot(p) ==
    /\ last[p].pc = "call"
    /\ LET tpl == heap[last[p].got]
       IN  IF BindFails(tpl.signature, last[p].args, NoKwargs)
           THEN /\ last' = [last EXCEPT ![p].pc = "done", ![p].outcome = "TypeError"]
                /\ UNCHANGED cache
           ELSE LET values == BoundArguments(tpl.signature, last[p].args, NoKwargs)
                    r == render(cache, tpl.template, tpl.model, values)
                IN  /\ cache' = r.cache
                    /\ last' = [last EXCEPT ![p].pc = "done", ![p].outcome = r.outcome,
                                            ![p].out = r.out]
    /\ UNCHANGED <<heap, lookedUp, registered>>

NextThreads ==
    \E p \in Callers :
        \/ \E m \in KnownModels, f \in {"simple_prompt_name", "no_doc"} : EnterRegister(p, m, f)
        \/ WrapperTemplate(p)
        \/ WrapperModel(p)
        \/ WrapperRegistry(p)
        \/ \E m \in KnownModels, args \in CallArgs : EnterLookupCall(p, m, args)
        \/ Getitem(p)
        \/ CallGot(p)

SpecThreads == InitThreads /\ [][NextThreads]_vars

\* --------------------------------------------------- claims on concurrency
\* every caller ran op to its end without an exception
AllDone(op) ==
    \A p \in Callers : last[p].op = op /\ last[p].pc = "done" /\ last[p].outcome = "ok"

DifferentModels == \A p, q \in Callers : p # q => last[p].m # last[q].m

\* C15: when two callers Register under two different model identifiers on
\* the same Template, their statements interleaved in any order, then once
\* both have returned the registry holds both keys and each maps to the
\* Template registered under it.
C15_NoLostRegistration ==
    (AllDone("register") /\ DifferentModels) =>
        \A p \in Callers :
            /\ last[p].m \in DOMAIN heap[T].registry
            /\ heap[T].registry[last[p].m] = last[p].ret
            /\ heap[last[p].ret].model = last[p].m
            /\ heap[last[p].ret].template = Fn(last[p].f).doc

\* both registrations returned, and caller 2 made its Template before
\* caller 1 made its own
C15_Witness ==
    /\ AllDone("register")
    /\ DifferentModels
    /\ last[2].tpl < last[1].tpl
    /\ Cardinality(DOMAIN heap[T].registry) = Cardinality(Callers)

\* C19 (as claimed): when two callers each evaluate T[m](args) with two different model
\* identifiers that are not registered, their Lookup and Call steps
\* interleaved in any order, each caller's result is T's text rendered with
\* the special tokens of its own model identifier.
C19_OwnTokens ==
    (AllDone("lookup-call") /\ DifferentModels) =>
        \A p \in Callers :
            last[p].out = Expand(cleaned_template(heap[T].template), last[p].m,
                                 BoundArguments(heap[T].signature, last[p].args, NoKwargs))

\* caller p's Call on T itself returns a string in this step
CallOnT(p) ==
    /\ last[p].pc = "call"
    /\ last[p].got = T
    /\ last'[p].pc = "done"
    /\ last'[p].outcome = "ok"

\* C19 (amended): each caller's result is T's text rendered with the special
\* tokens of the model identifier of the latest Lookup made on T, by either
\* caller, before that caller's Call step; it is the caller's own identifier
\* only when the other caller's Lookup does not come between its Lookup and
\* its Call.
C19_LatestLookupTokens ==
    [][\A p \in Callers :
          CallOnT(p) =>
              last'[p].out = Expand(cleaned_template(heap[T].template), lookedUp[T],
                                    BoundArguments(heap[T].signature, last[p].args, NoKwargs))]_vars

\* both callers returned, and caller 1, who asked for gemma, got the text
\* with the tokens of Mistral, the model of caller 2
C19_Witness ==
    /\ AllDone("lookup-call")
    /\ DifferentModels
    /\ last[1].m = "google/gemma-2-9b"
    /\ last[1].args = <<VTest>>
    /\ last[1].out = <<"<s>", "test">>

\* ------------------------------------------------------- the chat machine
\* chat.py: here heap holds list objects and Chat objects, a Chat holding the
\* identity of its history list.  The list that is the default value of the
\* history parameter of Chat.__init__ is made once, when the class is defined.
MaxObjects == 5        \* objects of the chat machine
MaxHistory == 2        \* messages of one history list

Message(role, content) == [role |-> role, content |-> content]

Messages == {Message("user", "hi"), Message("assistant", "ok")}

List(items) == [kind |-> "list", items |-> items]

Chat(history) == [kind |-> "Chat", history |-> history]

\* the list object of `history: List[Message] = []`
DefaultHistory == 1

Chats == {c \in Ids : heap[c].kind = "Chat"}

\* what the history of Chat c holds
History(h, c) == h[h[c].history].items

ChatOp(op, c, msg, ret) == [op |-> op, c |-> c, msg |-> msg, ret |-> ret]

NoMessage == Message("", "")

InitChat ==
    /\ heap = <<List(<<>>)>>
    /\ cache = <<>>
    /\ lookedUp = <<>>
    /\ registered = <<>>
    /\ last = ChatOp("init", 0, NoMessage, 0)

\* Chat(): self.history = history, the default list
NewChat ==
    /\ Len(heap) < MaxObjects
    /\ heap' = Append(heap, Chat(DefaultHistory))
    /\ last' = ChatOp("Chat", 0, NoMessage, Len(heap) + 1)
    /\ UNCHANGED <<cache, lookedUp, registered>>

\* Chat(history=[]): a list of the caller's
NewChatWithHistory ==
    /\ Len(heap) + 1 < MaxObjects
    /\ heap' = heap \o <<List(<<>>), Chat(Len(heap) + 1)>>
    /\ last' = ChatOp("Chat", 0, NoMessage, Len(heap) + 2)
    /\ UNCHANGED <<cache, lookedUp, registered>>

\* history = self.history; history.append(other);
\* return Chat(self.system, self.tools, self.documents, history=history)
AppendAndCopy(op, c, other) ==
    /\ Len(heap) < MaxObjects
    /\ Len(History(heap, c)) < MaxHistory
    /\ heap' = Append([heap EXCEPT ![heap[c].history].items = Append(@, other)],
                      Chat(heap[c].history))
    /\ last' = ChatOp(op, c, other, Len(heap) + 1)
    /\ UNCHANGED <<cache, lookedUp, registered>>

\* chat + message
Add(c, other) == AppendAndCopy("add", c, other)

\* message + chat
Radd(c, other) == AppendAndCopy("radd", c, other)

\* chat += message
Iadd(c, other) ==
    /\ Len(History(heap, c)) < MaxHistory
    /\ heap' = [heap EXCEPT ![heap[c].history].items = Append(@, other)]
    /\ last' = ChatOp("iadd", c, other, c)
    /\ UNCHANGED <<cache, lookedUp, registered>>

NextChat ==
    \/ NewChat
    \/ NewChatWithHistory
    \/ \E c \in Chats, other \in Messages : Add(c, other)
    \/ \E c \in Chats, other \in Messages : Radd(c, other)
    \/ \E c \in Chats, other \in Messages : Iadd(c, other)

SpecChat == InitChat /\ [][NextChat]_vars

\* C20: the history of a Chat changes only by += applied to that Chat;
\* chat + message and message + chat return a Chat that holds the appended
\* message and leave the operand's history as it was; appending to one Chat
\* never changes the history of another Chat made without a history argument.
C20_HistoryIsolation ==
    [][/\ \A c \in Chats :
             History(heap', c) # History(heap, c) => (last'.op = "iadd" /\ last'.c = c)
       /\ last'.op \in {"add", "radd"} =>
             History(heap', last'.ret) = Append(History(heap, last'.c), last'.msg)]_vars

====
